---- MODULE Spec2Model ----
(***************************************************************************)
(* Model of the schedule builder of src/src/app/page.tsx (buildSchedule)   *)
(* and of the helpers it uses.  One run of buildSchedule is a walk through *)
(* the program points sort -> warmup -> (guard -> break -> lunch -> task)* *)
(* -> wrap -> done; each action is the code between two program points.    *)
(* Times are integer minutes since midnight, as in the code.               *)
(***************************************************************************)
EXTENDS Integers, Sequences, FiniteSets, TLC

VARIABLES
    tasks,              \* the caller's task array (argument of buildSchedule)
    cfg,                \* the other arguments of buildSchedule
    sorted,             \* const sorted = [...tasks].sort(...)
    idx,                \* position of the for-of loop in sorted (1-based)
    blocks,             \* const blocks: ScheduleBlock[]
    cursor,             \* let cursor
    minutesSinceBreak,  \* let minutesSinceBreak
    finish,             \* const finish (set at the end of the run)
    seed,               \* what this run's createId() calls draw from
    idCount,            \* number of createId() calls made in this run
    pc,                 \* program point inside buildSchedule
    run,                \* 1 for the first invocation, 2 for the repeated one
    prev,               \* what the previous invocation returned
    home,               \* the useState values of Home as of the last render
    storage,            \* localStorage's item under STORAGE_KEY
    updates,            \* state updates queued and not rendered yet
    effects,            \* effects of the last render that have not run yet
    edits               \* number of user events so far

\* The variables of a run of buildSchedule
walkVars == <<tasks, cfg, sorted, idx, blocks, cursor, minutesSinceBreak,
              finish, seed, idCount, pc, run, prev>>

\* The variables of the Home component
homeVars == <<home, storage, updates, effects, edits>>

vars == <<tasks, cfg, sorted, idx, blocks, cursor, minutesSinceBreak, finish,
          seed, idCount, pc, run, prev, home, storage, updates, effects,
          edits>>

----------------------------------------------------------------------------
(* Bounds of the model *)

MaxTasks == 3

(* Program constants *)

MINUTES_IN_DAY == 1440
lunchStart == 750
lunchLength == 35

----------------------------------------------------------------------------
(* number | null: null is the empty tuple, a number v is <<v>> *)

Null == <<>>
Num(v) == <<v>>
IsNull(e) == e = Null
Val(e) == e[1]

\* JavaScript's !endMinutes: true of null and of 0
Falsy(e) == IsNull(e) \/ Val(e) = 0

----------------------------------------------------------------------------
(* Helpers *)

clampToDay(value) ==
    LET m == IF value < MINUTES_IN_DAY THEN value ELSE MINUTES_IN_DAY
    IN  IF m > 0 THEN m ELSE 0

energyRank(level) ==
    CASE level = "high" -> 3
      [] level = "medium" -> 2
      [] OTHER -> 1

\* Compare with the energy tie-break left out
CompareIgnoringEnergy(a, b) ==
    IF a.priority = b.priority
    THEN a.createdAt - b.createdAt
    ELSE b.priority - a.priority

\* The comparator handed to Array.prototype.sort: negative when a goes first
Compare(a, b) ==
    IF a.priority = b.priority
    THEN IF a.energy = b.energy
         THEN a.createdAt - b.createdAt
         ELSE LET energyScore == energyRank(b.energy) - energyRank(a.energy)
              IN  IF energyScore # 0 THEN energyScore
                  ELSE a.createdAt - b.createdAt
    ELSE b.priority - a.priority

\* Insert t into an already sorted s after every element that does not
\* compare greater than it (what keeps the sort stable)
RECURSIVE InsertSorted(_, _)
InsertSorted(t, s) ==
    IF s = <<>> THEN <<t>>
    ELSE IF Compare(Head(s), t) <= 0
         THEN <<Head(s)>> \o InsertSorted(t, Tail(s))
         ELSE <<t>> \o s

RECURSIVE StableSort(_)
StableSort(s) ==
    IF s = <<>> THEN <<>>
    ELSE InsertSorted(s[Len(s)], StableSort(SubSeq(s, 1, Len(s) - 1)))

\* Every arrangement of s in which no element is followed by one that
\* compares smaller
Arrangements(s) ==
    LET n == Len(s)
        perms == {p \in [1..n -> 1..n] : \A i, j \in 1..n : i # j => p[i] # p[j]}
    IN  {[i \in 1..n |-> s[p[i]]] : p \in
            {q \in perms : \A i, j \in 1..n :
                i < j => Compare(s[q[i]], s[q[j]]) <= 0}}

\* The results [...tasks].sort(cmp) can have: Array.prototype.sort is stable,
\* so exactly one
SortResults(s) == {StableSort(s)}

\* createId(): an identifier that no other call of this run returns
createId(sd, n) == <<sd, n>>

----------------------------------------------------------------------------
(* Inputs *)

Seeds == {1, 2}

TaskPool ==
    { [id |-> <<0, 1>>, title |-> "deep", duration |-> 90, priority |-> 5,
       energy |-> "high", createdAt |-> 1],
      [id |-> <<0, 2>>, title |-> "inbox", duration |-> 25, priority |-> 2,
       energy |-> "low", createdAt |-> 2],
      [id |-> <<0, 3>>, title |-> "sync", duration |-> 60, priority |-> 5,
       energy |-> "medium", createdAt |-> 3],
      [id |-> <<0, 4>>, title |-> "chores", duration |-> 45, priority |-> 2,
       energy |-> "low", createdAt |-> 2],
      [id |-> <<0, 5>>, title |-> "review", duration |-> 30, priority |-> 2,
       energy |-> "medium", createdAt |-> 4],
      [id |-> <<0, 6>>, title |-> "notes", duration |-> 20, priority |-> 2,
       energy |-> "low", createdAt |-> 1] }

\* Task arrays: up to MaxTasks tasks of the pool, each at most once
\* (identifiers are unique), in any array order
TaskLists ==
    UNION { {s \in [1..n -> TaskPool] : \A i, j \in 1..n : i # j => s[i] # s[j]}
            : n \in 0..MaxTasks }

\* timeToMinutesStatic on an "HH:MM" string with numeric parts h and m
timeToMinutesStatic(h, m) == clampToDay(h * 60 + m)

\* parseTimeInput on such a string
parseTimeInput(h, m) == clampToDay(timeToMinutesStatic(h, m))

\* startMinutes = parseTimeInput(startTime)
StartSet == {parseTimeInput(t[1], t[2]) : t \in {<<8, 0>>, <<11, 0>>, <<12, 0>>, <<23, 20>>}}

\* endMinutes = endTime ? parseTimeInput(endTime) : null
EndSet ==
    {Null} \cup {Num(parseTimeInput(t[1], t[2])) :
                    t \in {<<0, 0>>, <<8, 5>>, <<9, 30>>, <<12, 50>>, <<13, 15>>}}
BreakFrequencySet == {0, 60, 90}
BreakLengthSet == {10}
WarmupSet == {0, 10}
WrapSet == {0, 10}

Configs ==
    [startMinutes : StartSet, endMinutes : EndSet,
     breakFrequency : BreakFrequencySet, breakLength : BreakLengthSet,
     warmup : WarmupSet, wrap : WrapSet, autoLunch : BOOLEAN]

\* Inputs outside the documented ranges: tasks of duration 0 and below,
\* negative lengths and a negative break frequency.  buildSchedule itself
\* validates nothing, and the saved state the caller restores is not
\* validated either.
RawTaskPool ==
    { [id |-> <<0, 2>>, title |-> "inbox", duration |-> 25, priority |-> 2,
       energy |-> "low", createdAt |-> 2],
      [id |-> <<0, 4>>, title |-> "chores", duration |-> 45, priority |-> 2,
       energy |-> "low", createdAt |-> 2],
      [id |-> <<0, 6>>, title |-> "notes", duration |-> 20, priority |-> 2,
       energy |-> "low", createdAt |-> 1],
      [id |-> <<0, 7>>, title |-> "empty", duration |-> 0, priority |-> 5,
       energy |-> "high", createdAt |-> 5],
      [id |-> <<0, 8>>, title |-> "minus", duration |-> -15, priority |-> 2,
       energy |-> "medium", createdAt |-> 6] }

RawTaskLists ==
    UNION { {s \in [1..n -> RawTaskPool] : \A i, j \in 1..n : i # j => s[i] # s[j]}
            : n \in 0..MaxTasks }

RawConfigs ==
    [startMinutes : {parseTimeInput(12, 0)},
     endMinutes : {Null, Num(parseTimeInput(13, 15))},
     breakFrequency : {-30, 0, 20}, breakLength : {-70, 10},
     warmup : {-5, 15}, wrap : {-5, 10}, autoLunch : BOOLEAN]

\* The configuration with every negative length and a negative break
\* frequency replaced by 0
NegativesAsZero(c) ==
    LET atLeast0(v) == IF v < 0 THEN 0 ELSE v
    IN  [c EXCEPT !.breakFrequency = atLeast0(@), !.breakLength = atLeast0(@),
                  !.warmup = atLeast0(@), !.wrap = atLeast0(@)]

----------------------------------------------------------------------------
(* State machine *)

\* Configurations of the specification that invokes buildSchedule twice
RebuildConfigs ==
    [startMinutes : {480, 720}, endMinutes : {Null, Num(570), Num(795)},
     breakFrequency : {0, 60}, breakLength : BreakLengthSet,
     warmup : {10}, wrap : {10}, autoLunch : BOOLEAN]

NoResult == [blocks |-> <<>>, finish |-> Null, seed |-> 0]

\* buildSchedule is called on its own: no Home component is mounted
NotMounted ==
    /\ home = Null
    /\ storage = Null
    /\ updates = <<>>
    /\ effects = <<>>
    /\ edits = 0

InitWith(taskLists, configs) ==
    /\ NotMounted
    /\ tasks \in taskLists
    /\ cfg \in configs
    /\ sorted = <<>>
    /\ idx = 1
    /\ blocks = <<>>
    /\ cursor = 0
    /\ minutesSinceBreak = 0
    /\ finish = Null
    /\ seed = 1
    /\ idCount = 0
    /\ pc = "sort"
    /\ run = 1
    /\ prev = NoResult

Init == InitWith(TaskLists, Configs)

InitRebuild == InitWith(TaskLists, RebuildConfigs)

InitRaw == InitWith(RawTaskLists, RawConfigs)

\* A block that is no task block
Block(kind, label, start, end) ==
    [id |-> createId(seed, idCount + 1), kind |-> kind, label |-> label,
     start |-> start, end |-> end, task |-> <<>>, muted |-> FALSE]

\* TaskBlock with a fresh identifier, as the other kinds of block have
TaskBlockFreshId(task, start, end, muted) ==
    [id |-> createId(seed, idCount + 1), kind |-> "task", label |-> task.title,
     start |-> start, end |-> end, task |-> <<task>>, muted |-> muted]

TaskBlock(task, start, end, muted) ==
    [id |-> task.id, kind |-> "task", label |-> task.title,
     start |-> start, end |-> end, task |-> <<task>>, muted |-> muted]

\* SortStep with tasks.sort(...) in place of [...tasks].sort(...)
SortStepInPlace ==
    /\ pc = "sort"
    /\ sorted' \in SortResults(tasks)
    /\ tasks' = sorted'
    /\ blocks' = <<>>
    /\ cursor' = cfg.startMinutes
    /\ minutesSinceBreak' = 0
    /\ idx' = 1
    /\ idCount' = 0
    /\ finish' = Null
    /\ pc' = "warmup"
    /\ UNCHANGED <<cfg, seed, run, prev>>
    /\ UNCHANGED homeVars

\* Entry of buildSchedule: the sort, and the declarations of blocks, cursor
\* and minutesSinceBreak
SortStep ==
    /\ pc = "sort"
    /\ sorted' \in SortResults(tasks)
    /\ blocks' = <<>>
    /\ cursor' = cfg.startMinutes
    /\ minutesSinceBreak' = 0
    /\ idx' = 1
    /\ idCount' = 0
    /\ finish' = Null
    /\ pc' = "warmup"
    /\ UNCHANGED <<tasks, cfg, seed, run, prev>>
    /\ UNCHANGED homeVars

\* WarmupStep with warmup >= 0 for its condition
WarmupStepAlways ==
    /\ pc = "warmup"
    /\ IF cfg.warmup >= 0
       THEN LET end == cursor + cfg.warmup
            IN  /\ blocks' = Append(blocks, Block("warmup", "Prime the day", cursor, end))
                /\ idCount' = idCount + 1
                /\ cursor' = end
                /\ minutesSinceBreak' = 0
       ELSE UNCHANGED <<blocks, idCount, cursor, minutesSinceBreak>>
    /\ pc' = "guard"
    /\ UNCHANGED <<tasks, cfg, sorted, idx, finish, seed, run, prev>>
    /\ UNCHANGED homeVars

\* if (warmup > 0) { ... }
WarmupStep ==
    /\ pc = "warmup"
    /\ IF cfg.warmup > 0
       THEN LET end == cursor + cfg.warmup
            IN  /\ blocks' = Append(blocks, Block("warmup", "Prime the day", cursor, end))
                /\ idCount' = idCount + 1
                /\ cursor' = end
                /\ minutesSinceBreak' = 0
       ELSE UNCHANGED <<blocks, idCount, cursor, minutesSinceBreak>>
    /\ pc' = "guard"
    /\ UNCHANGED <<tasks, cfg, sorted, idx, finish, seed, run, prev>>
    /\ UNCHANGED homeVars

\* Head of the for-of loop and its first statement: leave the loop when the
\* tasks are exhausted or the cursor has reached the end minute
EndReached == ~IsNull(cfg.endMinutes) /\ cursor >= Val(cfg.endMinutes)

LoopGuard ==
    /\ pc = "guard"
    /\ pc' = IF idx > Len(sorted) \/ EndReached THEN "wrap" ELSE "break"
    /\ UNCHANGED <<tasks, cfg, sorted, idx, blocks, cursor, minutesSinceBreak,
                   finish, seed, idCount, run, prev>>
    /\ UNCHANGED homeVars

\* BreakDue without the test of the counter
BreakDueAnyCounter == cfg.breakFrequency > 0

\* BreakDue with the boundary excluded
BreakDueStrict == cfg.breakFrequency > 0 /\ minutesSinceBreak > cfg.breakFrequency

\* if (breakFrequency > 0 && minutesSinceBreak >= breakFrequency) { ... }
BreakDue == cfg.breakFrequency > 0 /\ minutesSinceBreak >= cfg.breakFrequency

BreakFits(breakEnd) == Falsy(cfg.endMinutes) \/ breakEnd <= Val(cfg.endMinutes)

\* BreakStep handling a break that does not fit the way the lunch is
\* handled: the block is not pushed, the cursor and the counter move
BreakStepJumpAlways ==
    /\ pc = "break"
    /\ LET breakEnd == cursor + cfg.breakLength
       IN  IF BreakDue
           THEN /\ IF BreakFits(breakEnd)
                   THEN /\ blocks' = Append(blocks,
                               Block("break", "Reset break", cursor, breakEnd))
                        /\ idCount' = idCount + 1
                   ELSE UNCHANGED <<blocks, idCount>>
                /\ cursor' = breakEnd
                /\ minutesSinceBreak' = 0
           ELSE UNCHANGED <<blocks, idCount, cursor, minutesSinceBreak>>
    /\ pc' = "lunch"
    /\ UNCHANGED <<tasks, cfg, sorted, idx, finish, seed, run, prev>>
    /\ UNCHANGED homeVars

\* BreakStep without cursor = breakEnd
BreakStepCursorKept ==
    /\ pc = "break"
    /\ LET breakEnd == cursor + cfg.breakLength
       IN  IF BreakDue /\ BreakFits(breakEnd)
           THEN /\ blocks' = Append(blocks, Block("break", "Reset break", cursor, breakEnd))
                /\ idCount' = idCount + 1
                /\ minutesSinceBreak' = 0
                /\ UNCHANGED cursor
           ELSE UNCHANGED <<blocks, idCount, cursor, minutesSinceBreak>>
    /\ pc' = "lunch"
    /\ UNCHANGED <<tasks, cfg, sorted, idx, finish, seed, run, prev>>
    /\ UNCHANGED homeVars

BreakStep ==
    /\ pc = "break"
    /\ LET breakEnd == cursor + cfg.breakLength
       IN  IF BreakDue /\ BreakFits(breakEnd)
           THEN /\ blocks' = Append(blocks, Block("break", "Reset break", cursor, breakEnd))
                /\ idCount' = idCount + 1
                /\ cursor' = breakEnd
                /\ minutesSinceBreak' = 0
           ELSE UNCHANGED <<blocks, idCount, cursor, minutesSinceBreak>>
    /\ pc' = "lunch"
    /\ UNCHANGED <<tasks, cfg, sorted, idx, finish, seed, run, prev>>
    /\ UNCHANGED homeVars

\* LunchDue without cursor < lunchStart
LunchDueAnyCursor(task) ==
    /\ cfg.autoLunch
    /\ cursor + task.duration > lunchStart

\* if (autoLunch && cursor < lunchStart && cursor + task.duration > lunchStart)
LunchDue(task) ==
    /\ cfg.autoLunch
    /\ cursor < lunchStart
    /\ cursor + task.duration > lunchStart

LunchFits(lunchEnd) == Falsy(cfg.endMinutes) \/ lunchEnd <= Val(cfg.endMinutes)

\* LunchStep with cursor = lunchEnd and the counter reset moved into the
\* branch that pushes the block
LunchStepJumpOnlyWhenPushed ==
    /\ pc = "lunch"
    /\ LET task == sorted[idx]
           lunchEnd == lunchStart + lunchLength
       IN  IF LunchDue(task) /\ LunchFits(lunchEnd)
           THEN /\ blocks' = Append(blocks,
                       Block("lunch", "Lunch reset", lunchStart, lunchEnd))
                /\ idCount' = idCount + 1
                /\ cursor' = lunchEnd
                /\ minutesSinceBreak' = 0
           ELSE UNCHANGED <<blocks, idCount, cursor, minutesSinceBreak>>
    /\ pc' = "task"
    /\ UNCHANGED <<tasks, cfg, sorted, idx, finish, seed, run, prev>>
    /\ UNCHANGED homeVars

\* LunchStep with the lunch block placed at the cursor
LunchStepAtCursor ==
    /\ pc = "lunch"
    /\ LET task == sorted[idx]
           lunchEnd == cursor + lunchLength
       IN  IF LunchDue(task)
           THEN /\ IF LunchFits(lunchEnd)
                   THEN /\ blocks' = Append(blocks,
                               Block("lunch", "Lunch reset", cursor, lunchEnd))
                        /\ idCount' = idCount + 1
                   ELSE UNCHANGED <<blocks, idCount>>
                /\ cursor' = lunchEnd
                /\ minutesSinceBreak' = 0
           ELSE UNCHANGED <<blocks, idCount, cursor, minutesSinceBreak>>
    /\ pc' = "task"
    /\ UNCHANGED <<tasks, cfg, sorted, idx, finish, seed, run, prev>>
    /\ UNCHANGED homeVars

LunchStep ==
    /\ pc = "lunch"
    /\ LET task == sorted[idx]
           lunchEnd == lunchStart + lunchLength
       IN  IF LunchDue(task)
           THEN /\ IF LunchFits(lunchEnd)
                   THEN /\ blocks' = Append(blocks,
                               Block("lunch", "Lunch reset", lunchStart, lunchEnd))
                        /\ idCount' = idCount + 1
                   ELSE UNCHANGED <<blocks, idCount>>
                /\ cursor' = lunchEnd
                /\ minutesSinceBreak' = 0
           ELSE UNCHANGED <<blocks, idCount, cursor, minutesSinceBreak>>
    /\ pc' = "task"
    /\ UNCHANGED <<tasks, cfg, sorted, idx, finish, seed, run, prev>>
    /\ UNCHANGED homeVars

\* The placement of the task: plannedEnd, truncation, the skip of an empty
\* span, the push of the task block
\* Truncated with the boundary included
TruncatedInclusive(plannedEnd) ==
    ~IsNull(cfg.endMinutes) /\ plannedEnd >= Val(cfg.endMinutes)

Truncated(plannedEnd) == ~IsNull(cfg.endMinutes) /\ plannedEnd > Val(cfg.endMinutes)

\* TaskStep with the empty-span test actualEnd < cursor
TaskStepEmptySpan ==
    /\ pc = "task"
    /\ LET task == sorted[idx]
           plannedEnd == cursor + task.duration
           muted == Truncated(plannedEnd)
           actualEnd == IF muted THEN Val(cfg.endMinutes) ELSE plannedEnd
       IN  IF actualEnd < cursor
           THEN UNCHANGED <<blocks, cursor, minutesSinceBreak>>
           ELSE /\ blocks' = Append(blocks, TaskBlock(task, cursor, actualEnd, muted))
                /\ minutesSinceBreak' = minutesSinceBreak + task.duration
                /\ cursor' = actualEnd
    /\ idx' = idx + 1
    /\ pc' = "guard"
    /\ UNCHANGED <<tasks, cfg, sorted, finish, seed, idCount, run, prev>>
    /\ UNCHANGED homeVars

\* TaskStep that skips a task whose planned end exceeds the end minute
\* instead of truncating it
TaskStepSkipOverrun ==
    /\ pc = "task"
    /\ LET task == sorted[idx]
           plannedEnd == cursor + task.duration
       IN  IF Truncated(plannedEnd) \/ plannedEnd <= cursor
           THEN UNCHANGED <<blocks, cursor, minutesSinceBreak>>
           ELSE /\ blocks' = Append(blocks, TaskBlock(task, cursor, plannedEnd, FALSE))
                /\ minutesSinceBreak' = minutesSinceBreak + task.duration
                /\ cursor' = plannedEnd
    /\ idx' = idx + 1
    /\ pc' = "guard"
    /\ UNCHANGED <<tasks, cfg, sorted, finish, seed, idCount, run, prev>>
    /\ UNCHANGED homeVars

TaskStep ==
    /\ pc = "task"
    /\ LET task == sorted[idx]
           plannedEnd == cursor + task.duration
           muted == Truncated(plannedEnd)
           actualEnd == IF muted THEN Val(cfg.endMinutes) ELSE plannedEnd
       IN  IF actualEnd <= cursor
           THEN UNCHANGED <<blocks, cursor, minutesSinceBreak>>
           ELSE /\ blocks' = Append(blocks, TaskBlock(task, cursor, actualEnd, muted))
                /\ minutesSinceBreak' = minutesSinceBreak + task.duration
                /\ cursor' = actualEnd
    /\ idx' = idx + 1
    /\ pc' = "guard"
    /\ UNCHANGED <<tasks, cfg, sorted, finish, seed, idCount, run, prev>>
    /\ UNCHANGED homeVars

\* WrapFits comparing the cursor alone with the end minute
WrapFitsCursorOnly == Falsy(cfg.endMinutes) \/ cursor <= Val(cfg.endMinutes)

\* if (wrap > 0 && (!endMinutes || cursor + wrap <= endMinutes)) { ... }
\* and the return of { blocks, finish }
WrapFits == Falsy(cfg.endMinutes) \/ cursor + cfg.wrap <= Val(cfg.endMinutes)

WrapStep ==
    /\ pc = "wrap"
    /\ IF cfg.wrap > 0 /\ WrapFits
       THEN /\ blocks' = Append(blocks,
                   Block("wrap", "Wind-down", cursor, cursor + cfg.wrap))
            /\ idCount' = idCount + 1
            /\ cursor' = cursor + cfg.wrap
       ELSE UNCHANGED <<blocks, idCount, cursor>>
    /\ finish' = Num(cursor')
    /\ pc' = "done"
    /\ UNCHANGED <<tasks, cfg, sorted, idx, minutesSinceBreak, seed, run, prev>>
    /\ UNCHANGED homeVars

\* What of a block sequence is the same in every invocation: everything
\* but the identifiers
Shape(bs) ==
    [i \in 1..Len(bs) |->
        [kind |-> bs[i].kind, label |-> bs[i].label,
         start |-> bs[i].start, end |-> bs[i].end]]

\* The caller invokes buildSchedule again with the same arguments; the
\* createId() calls of the new invocation draw fresh identifiers
Rebuild ==
    /\ pc = "done"
    /\ run = 1
    /\ prev' = [blocks |-> Shape(blocks), finish |-> finish, seed |-> seed]
    /\ run' = 2
    /\ seed' \in Seeds
    /\ pc' = "sort"
    /\ UNCHANGED <<tasks, cfg, sorted, idx, blocks, cursor, minutesSinceBreak,
                   finish, idCount>>
    /\ UNCHANGED homeVars

\* The caller invokes buildSchedule again with the same tasks and with the
\* negative values of the configuration replaced by 0
RebuildClamped ==
    /\ pc = "done"
    /\ run = 1
    /\ prev' = [blocks |-> Shape(blocks), finish |-> finish, seed |-> seed]
    /\ run' = 2
    /\ cfg' = NegativesAsZero(cfg)
    /\ seed' \in Seeds
    /\ pc' = "sort"
    /\ UNCHANGED <<tasks, sorted, idx, blocks, cursor, minutesSinceBreak,
                   finish, idCount>>
    /\ UNCHANGED homeVars

Next ==
    \/ SortStep
    \/ WarmupStep
    \/ LoopGuard
    \/ BreakStep
    \/ LunchStep
    \/ TaskStep
    \/ WrapStep

Spec == Init /\ [][Next]_vars

NextRebuild == Next \/ Rebuild

SpecRebuild == InitRebuild /\ [][NextRebuild]_vars

NextRaw == Next \/ RebuildClamped

SpecRaw == InitRaw /\ [][NextRaw]_vars

----------------------------------------------------------------------------
(***************************************************************************)
(* The Home component: its state, the effect that loads the saved planner  *)
(* state, the effect that applies a profile preset and the effect that     *)
(* saves.  A time string "HH:MM" is the pair <<HH, MM>>, the empty string  *)
(* is <<>>.  A text of localStorage is a record: its kind (an object, the  *)
(* empty string, the text null, a text that JSON.parse rejects), and for   *)
(* an object the properties it has and their values.                       *)
(***************************************************************************)

MaxEdits == 2

\* What the createId() calls of the mount draw from
MountSeed == 3

minutesToTimeString(value) ==
    LET minutes == clampToDay(value)
    IN  <<minutes \div 60, minutes % 60>>

focusProfiles ==
    << [key |-> "sunrise", start |-> timeToMinutesStatic(6, 30),
        breakFrequency |-> 80, breakLength |-> 12, warmup |-> 12, wrap |-> 10],
       [key |-> "balanced", start |-> timeToMinutesStatic(8, 0),
        breakFrequency |-> 90, breakLength |-> 10, warmup |-> 10, wrap |-> 12],
       [key |-> "late", start |-> timeToMinutesStatic(10, 0),
        breakFrequency |-> 75, breakLength |-> 15, warmup |-> 8, wrap |-> 15] >>

defaultTasksSeed ==
    << [title |-> "Clarity checkpoint", duration |-> 15, priority |-> 3,
        energy |-> "low", createdAt |-> 0],
       [title |-> "Signature project push", duration |-> 90, priority |-> 5,
        energy |-> "high", createdAt |-> 1],
       [title |-> "Team sync / touchpoints", duration |-> 45, priority |-> 4,
        energy |-> "medium", createdAt |-> 2] >>

seedTasks ==
    [k \in 1..Len(defaultTasksSeed) |->
        [id |-> createId(MountSeed, k),
         title |-> defaultTasksSeed[k].title,
         duration |-> defaultTasksSeed[k].duration,
         priority |-> defaultTasksSeed[k].priority,
         energy |-> defaultTasksSeed[k].energy,
         createdAt |-> defaultTasksSeed[k].createdAt]]

\* The initial values of the useState calls
DefaultState ==
    [name |-> "You", profile |-> "balanced", profileVersion |-> 0,
     startTime |-> <<8, 0>>, endTime |-> <<17, 30>>,
     breakFrequency |-> 90, breakLength |-> 10,
     includeWarmup |-> TRUE, includeWrap |-> TRUE, autoLunch |-> TRUE,
     tasks |-> seedTasks, ready |-> FALSE]

\* The properties of PersistedState
PersistedFields ==
    {"name", "tasks", "startTime", "endTime", "profile", "breakFrequency",
     "breakLength", "autoLunch", "includeWarmup", "includeWrap"}

\* const state: PersistedState = { name, tasks, ... }
PersistedState(h) == [f \in PersistedFields |-> h[f]]

\* JSON.stringify(state): the text of an object with every property
Stringify(state) ==
    [kind |-> "object", has |-> PersistedFields, fields |-> state]

\* A text that is no object has no properties
NoObject(kind) ==
    [kind |-> kind, has |-> {}, fields |-> PersistedState(DefaultState)]

\* What localStorage can hold when Home mounts: nothing, the empty string,
\* a text that does not parse, the text null, a state saved with settings
\* that differ from the defaults, a state saved after the user had emptied
\* the task list, the name and the end time, and an object of another
\* origin with a name and a task without id only
SavedSet ==
    { Null,
      Num(NoObject("empty")),
      Num(NoObject("corrupt")),
      Num(NoObject("null")),
      Num(Stringify(
          [name |-> "Ada",
           tasks |-> << [id |-> <<0, 1>>, title |-> "deep", duration |-> 90,
                         priority |-> 5, energy |-> "high", createdAt |-> 1] >>,
           startTime |-> <<9, 0>>, endTime |-> <<18, 0>>, profile |-> "late",
           breakFrequency |-> 75, breakLength |-> 15, autoLunch |-> FALSE,
           includeWarmup |-> FALSE, includeWrap |-> TRUE])),
      Num(Stringify(
          [name |-> "", tasks |-> <<>>,
           startTime |-> <<9, 0>>, endTime |-> <<>>, profile |-> "sunrise",
           breakFrequency |-> 0, breakLength |-> 0, autoLunch |-> FALSE,
           includeWarmup |-> TRUE, includeWrap |-> FALSE])),
      Num([kind |-> "object", has |-> {"name", "tasks"},
           fields |-> [PersistedState(DefaultState) EXCEPT
               !.name = "Ada",
               !.tasks = << [id |-> <<>>, title |-> "inbox", duration |-> 25,
                             priority |-> 2, energy |-> "low",
                             createdAt |-> 2] >>]]) }

\* A queued call of a state setter: setX(value), setTasks((prev) =>
\* prev.filter(...)) or setProfileVersion((prev) => prev + 1)
SetState(field, value) == [op |-> "set", field |-> field, value |-> value]
FilterTasks(id) == [op |-> "filter", field |-> "tasks", value |-> id]
Increment(field) == [op |-> "inc", field |-> field, value |-> 1]

ApplyUpdate(h, u) ==
    CASE u.op = "set" -> [h EXCEPT ![u.field] = u.value]
      [] u.op = "filter" ->
            [h EXCEPT !.tasks = SelectSeq(@, LAMBDA t : t.id # u.value)]
      [] u.op = "inc" -> [h EXCEPT ![u.field] = @ + u.value]

RECURSIVE ApplyAll(_, _)
ApplyAll(h, us) ==
    IF us = <<>> THEN h ELSE ApplyAll(ApplyUpdate(h, Head(us)), Tail(us))

\* The effects in the order of their useEffect calls
MountEffects == <<"load", "profile", "save">>

\* Home has rendered for the first time; the effects of the mount run once,
\* or twice where the build re-runs them (strict mode of a development build)
InitHome ==
    /\ tasks = <<>>
    /\ cfg = [startMinutes |-> parseTimeInput(8, 0), endMinutes |-> Null,
              breakFrequency |-> 0, breakLength |-> 10, warmup |-> 0,
              wrap |-> 0, autoLunch |-> FALSE]
    /\ sorted = <<>>
    /\ idx = 1
    /\ blocks = <<>>
    /\ cursor = 0
    /\ minutesSinceBreak = 0
    /\ finish = Null
    /\ seed = MountSeed
    /\ idCount = 0
    /\ pc = "sort"
    /\ run = 1
    /\ prev = NoResult
    /\ home = DefaultState
    /\ storage \in SavedSet
    /\ updates = <<>>
    /\ effects \in {MountEffects, MountEffects \o MountEffects}
    /\ edits = 0

EffectDue(which) == effects # <<>> /\ Head(effects) = which

\* The setter calls of the load effect for the text that getItem returned:
\* none for no item, for the empty string and for a text whose parsing or
\* whose first property access throws; for an object one call for each
\* property that passes its test
LoadedUpdates(saved) ==
    IF IsNull(saved) \/ Val(saved).kind # "object"
    THEN <<>>
    ELSE LET parsed == Val(saved).fields
             has(f) == f \in Val(saved).has
             withId(list) ==
                 [k \in 1..Len(list) |->
                     [list[k] EXCEPT !.id =
                         IF @ = <<>>
                         THEN createId(MountSeed, Len(defaultTasksSeed) + k)
                         ELSE @]]
             when(test, field, value) ==
                 IF test THEN <<SetState(field, value)>> ELSE <<>>
         IN  when(has("tasks") /\ Len(parsed.tasks) > 0,
                  "tasks", withId(parsed.tasks))
             \o when(has("name") /\ parsed.name # "", "name", parsed.name)
             \o when(has("profile") /\ parsed.profile # "",
                     "profile", parsed.profile)
             \o when(has("startTime") /\ parsed.startTime # <<>>,
                     "startTime", parsed.startTime)
             \o when(has("endTime") /\ parsed.endTime # <<>>,
                     "endTime", parsed.endTime)
             \o when(has("breakFrequency"),
                     "breakFrequency", parsed.breakFrequency)
             \o when(has("breakLength"), "breakLength", parsed.breakLength)
             \o when(has("autoLunch"), "autoLunch", parsed.autoLunch)
             \o when(has("includeWarmup"),
                     "includeWarmup", parsed.includeWarmup)
             \o when(has("includeWrap"), "includeWrap", parsed.includeWrap)

\* useEffect(() => { try { ... } catch { } finally { setReady(true) } }, [])
LoadEffect ==
    /\ EffectDue("load")
    /\ updates' = updates \o LoadedUpdates(storage)
                          \o <<SetState("ready", TRUE)>>
    /\ effects' = Tail(effects)
    /\ UNCHANGED <<home, storage, edits>>
    /\ UNCHANGED walkVars

\* useEffect(() => { if (!ready || profileVersion === 0) return; ... },
\*           [profile, profileVersion, ready])
ProfileEffect ==
    /\ EffectDue("profile")
    /\ LET presets == SelectSeq(focusProfiles,
                                LAMBDA item : item.key = home.profile)
       IN  IF ~home.ready \/ home.profileVersion = 0 \/ presets = <<>>
           THEN UNCHANGED updates
           ELSE LET profilePreset == Head(presets)
                IN  updates' = updates \o
                        << SetState("startTime",
                                    minutesToTimeString(profilePreset.start)),
                           SetState("breakFrequency",
                                    profilePreset.breakFrequency),
                           SetState("breakLength", profilePreset.breakLength),
                           SetState("includeWarmup", profilePreset.warmup > 0),
                           SetState("includeWrap", profilePreset.wrap > 0) >>
    /\ effects' = Tail(effects)
    /\ UNCHANGED <<home, storage, edits>>
    /\ UNCHANGED walkVars

\* SaveEffect without if (!ready) return
SaveEffectUnguarded ==
    /\ EffectDue("save")
    /\ storage' = Num(Stringify(PersistedState(home)))
    /\ effects' = Tail(effects)
    /\ UNCHANGED <<home, updates, edits>>
    /\ UNCHANGED walkVars

\* useEffect(() => { if (!ready) return; ...
\*   localStorage.setItem(STORAGE_KEY, JSON.stringify(state)) }, [...])
SaveEffect ==
    /\ EffectDue("save")
    /\ IF ~home.ready
       THEN UNCHANGED storage
       ELSE storage' = Num(Stringify(PersistedState(home)))
    /\ effects' = Tail(effects)
    /\ UNCHANGED <<home, updates, edits>>
    /\ UNCHANGED walkVars

\* The effects whose dependency lists differ between two renders
ProfileDeps == {"profile", "profileVersion", "ready"}
SaveDeps == PersistedFields \cup {"ready"}

EffectsAfter(before, after) ==
    (IF \E f \in ProfileDeps : after[f] # before[f]
     THEN <<"profile">> ELSE <<>>)
    \o (IF \E f \in SaveDeps : after[f] # before[f]
        THEN <<"save">> ELSE <<>>)

\* Home renders again once the effects of the last render have run: the
\* render takes the queued updates, all of them or the first ones, in the
\* order of the calls
Render ==
    /\ effects = <<>>
    /\ updates # <<>>
    /\ \E n \in 1..Len(updates) :
          /\ home' = ApplyAll(home, SubSeq(updates, 1, n))
          /\ updates' = SubSeq(updates, n + 1, Len(updates))
    /\ effects' = EffectsAfter(home, home')
    /\ UNCHANGED <<storage, edits>>
    /\ UNCHANGED walkVars

\* The user events: each queues the calls of its handler

\* const handleProfileChange = (value) => { setProfile(value);
\*   setProfileVersion((prev) => prev + 1) }
handleProfileChange ==
    /\ edits < MaxEdits
    /\ edits' = edits + 1
    /\ \E value \in {"late"} :
          updates' = updates \o <<SetState("profile", value),
                                   Increment("profileVersion")>>
    /\ UNCHANGED <<home, storage, effects>>
    /\ UNCHANGED walkVars

\* const handleDeleteTask = (id) => { setTasks((prev) => prev.filter(...)) }
handleDeleteTask ==
    /\ edits < MaxEdits
    /\ edits' = edits + 1
    /\ \E k \in 1..Len(home.tasks) :
          updates' = Append(updates, FilterTasks(home.tasks[k].id))
    /\ UNCHANGED <<home, storage, effects>>
    /\ UNCHANGED walkVars

\* onNameChange={setName}
onNameChange ==
    /\ edits < MaxEdits
    /\ edits' = edits + 1
    /\ \E value \in {"Bo"} :
          updates' = Append(updates, SetState("name", value))
    /\ UNCHANGED <<home, storage, effects>>
    /\ UNCHANGED walkVars

\* onEndTimeChange={setEndTime}
onEndTimeChange ==
    /\ edits < MaxEdits
    /\ edits' = edits + 1
    /\ \E value \in {<<>>} :
          updates' = Append(updates, SetState("endTime", value))
    /\ UNCHANGED <<home, storage, effects>>
    /\ UNCHANGED walkVars

NextHome ==
    \/ LoadEffect
    \/ ProfileEffect
    \/ SaveEffect
    \/ Render
    \/ handleProfileChange
    \/ handleDeleteTask
    \/ onNameChange
    \/ onEndTimeChange

SpecHome == InitHome /\ [][NextHome]_vars

----------------------------------------------------------------------------
(* Vocabulary of the properties *)

Done == pc = "done"

Positions(kind) == {i \in 1..Len(blocks) : blocks[i].kind = kind}

TaskOf(i) == blocks[i].task[1]

\* high > medium > low, stated on the tags themselves
HigherEnergy(a, b) ==
    <<a, b>> \in {<<"high", "medium">>, <<"high", "low">>, <<"medium", "low">>}

\* The order of section 4.1 step 1 between two tasks
GoesBefore(a, b) ==
    \/ a.priority > b.priority
    \/ a.priority = b.priority /\ HigherEnergy(a.energy, b.energy)
    \/ a.priority = b.priority /\ a.energy = b.energy /\ a.createdAt <= b.createdAt

\* The documented ranges of the inputs
InRange ==
    /\ \A i \in 1..Len(tasks) : tasks[i].duration > 0
    /\ cfg.startMinutes \in 0..MINUTES_IN_DAY
    /\ cfg.breakFrequency >= 0
    /\ cfg.breakLength >= 0
    /\ cfg.warmup >= 0
    /\ cfg.wrap >= 0

----------------------------------------------------------------------------
(* C1: the task blocks, read in sequence order, follow the comparator       *)
(* order: of two task blocks the earlier one has the higher priority, or    *)
(* the same priority and the higher energy rank, or the same priority and   *)
(* energy and a creation timestamp that is not later.                       *)
C1_TaskBlocksInComparatorOrder ==
    \A i, j \in Positions("task") : i < j => GoesBefore(TaskOf(i), TaskOf(j))

\* A finished run whose task blocks are not in array order, with a pair
\* decided by energy and a pair decided by the creation timestamp
C1_Witness ==
    /\ Done
    /\ Cardinality(Positions("task")) = 3
    /\ sorted # tasks
    /\ \E i, j \in Positions("task") :
          /\ i < j
          /\ TaskOf(i).priority = TaskOf(j).priority
          /\ TaskOf(i).energy # TaskOf(j).energy
    /\ \E i, j \in Positions("task") :
          /\ i < j
          /\ TaskOf(i).priority = TaskOf(j).priority
          /\ TaskOf(i).energy = TaskOf(j).energy
          /\ TaskOf(i).createdAt < TaskOf(j).createdAt

----------------------------------------------------------------------------
(* C2 as stated: every adjacent pair of blocks is contiguous,               *)
(* start(block[i]) = end(block[i-1]), for all configurations.               *)
C2_NoGapAnywhere ==
    \A i \in 2..Len(blocks) : blocks[i].start = blocks[i - 1].end

(* C2 as amended: every adjacent pair of blocks is contiguous except where  *)
(* block[i] is the lunch block, which starts at the fixed 12:30 anchor,     *)
(* strictly after the end of block[i-1].                                    *)
C2_NoGapExceptBeforeLunch ==
    \A i \in 2..Len(blocks) :
        IF blocks[i].kind = "lunch"
        THEN blocks[i].start = 750 /\ blocks[i - 1].end < 750
        ELSE blocks[i].start = blocks[i - 1].end

\* A finished run with a lunch block after a gap, and blocks on both sides
C2_Witness ==
    /\ Done
    /\ \E i \in Positions("lunch") :
          /\ 1 < i /\ i < Len(blocks)
          /\ blocks[i - 1].end < blocks[i].start
    /\ Positions("break") # {}

----------------------------------------------------------------------------
\* Start order, no overlap, no block that ends before it starts
C3_Ordered ==
    /\ \A i \in 1..Len(blocks) : blocks[i].start <= blocks[i].end
    /\ \A i \in 2..Len(blocks) :
          /\ blocks[i - 1].start <= blocks[i].start
          /\ blocks[i - 1].end <= blocks[i].start

\* The walk is between the entry of buildSchedule and its return
Walking == pc \notin {"sort", "done"}

(* C3: for inputs within the documented ranges the blocks are in           *)
(* non-decreasing start order, no two blocks overlap, every block has      *)
(* start <= end, and the cursor never moves backward during the walk.      *)
C3_OrderedAndMonotonic ==
    [][InRange => (C3_Ordered' /\ (Walking => cursor' >= cursor))]_vars

\* A finished run within the ranges that emitted every kind of block
C3_Witness ==
    /\ Done
    /\ InRange
    /\ \A k \in {"warmup", "task", "break", "lunch", "wrap"} : Positions(k) # {}

----------------------------------------------------------------------------
(* C4: whenever an end minute is configured (non-null), no block of any    *)
(* kind has an end greater than the configured end minute.                 *)
C4_NoBlockPastEnd ==
    ~IsNull(cfg.endMinutes) =>
        \A i \in 1..Len(blocks) : blocks[i].end <= Val(cfg.endMinutes)

----------------------------------------------------------------------------
(* C5: for every start minute in [0, 1440], also with an unbounded day,    *)
(* every block has start and end within [0, 1440], and the returned        *)
(* finish is within [0, 1440].                                             *)
C5_WithinDay ==
    cfg.startMinutes \in 0..1440 =>
        /\ \A i \in 1..Len(blocks) :
              blocks[i].start \in 0..1440 /\ blocks[i].end \in 0..1440
        /\ Done => Val(finish) \in 0..1440

----------------------------------------------------------------------------
(* C6: two invocations with the same task array and configuration return   *)
(* block sequences with the same length and the same kind, start, end and  *)
(* label at every position, and the same finish; only identifiers of       *)
(* non-task blocks may differ.  Also when tasks tie on priority, energy    *)
(* and creation timestamp.                                                 *)
C6_SameResultTwice ==
    (run = 2 /\ Done) =>
        /\ Len(blocks) = Len(prev.blocks)
        /\ \A i \in 1..Len(blocks) :
              /\ blocks[i].kind = prev.blocks[i].kind
              /\ blocks[i].start = prev.blocks[i].start
              /\ blocks[i].end = prev.blocks[i].end
              /\ blocks[i].label = prev.blocks[i].label
        /\ finish = prev.finish

\* The second invocation has returned, with other identifiers than the
\* first, for an array holding two tasks that tie on all three keys
C6_Witness ==
    /\ run = 2
    /\ Done
    /\ seed # prev.seed
    /\ Cardinality(Positions("task")) = 3
    /\ Positions("break") # {}
    /\ \E i, j \in 1..Len(tasks) :
          /\ i # j
          /\ tasks[i].priority = tasks[j].priority
          /\ tasks[i].energy = tasks[j].energy
          /\ tasks[i].createdAt = tasks[j].createdAt

----------------------------------------------------------------------------
(* C7 as stated: with warm-up length 0 there is no warmup block and with   *)
(* wrap length 0 no wrap block; with warm-up length > 0 the warmup block   *)
(* is always the first block and with wrap length > 0 the wrap block is    *)
(* always the last block; neither is ever among the task blocks.           *)
C7_WarmupFirstWrapLast ==
    Done =>
        /\ cfg.warmup = 0 => Positions("warmup") = {}
        /\ cfg.wrap = 0 => Positions("wrap") = {}
        /\ cfg.warmup > 0 => Positions("warmup") = {1}
        /\ cfg.wrap > 0 => Positions("wrap") = {Len(blocks)}

(* C7 as amended: as stated for the warm-up; with wrap length > 0 the wrap *)
(* block is emitted exactly when no end minute is configured (or it is 0) *)
(* or the wrap fits before the end minute, and when emitted it is the     *)
(* last block.                                                            *)
C7_WarmupFirstWrapLastIfItFits ==
    Done =>
        /\ cfg.warmup = 0 => Positions("warmup") = {}
        /\ cfg.wrap = 0 => Positions("wrap") = {}
        /\ cfg.warmup > 0 => Positions("warmup") = {1}
        /\ cfg.wrap > 0 =>
              IF Positions("wrap") # {}
              THEN /\ Positions("wrap") = {Len(blocks)}
                   /\ blocks[Len(blocks)].end = Val(finish)
                   /\ blocks[Len(blocks)].end - blocks[Len(blocks)].start = cfg.wrap
                   /\ \/ IsNull(cfg.endMinutes)
                      \/ Val(cfg.endMinutes) = 0
                      \/ Val(finish) <= Val(cfg.endMinutes)
              ELSE /\ ~IsNull(cfg.endMinutes)
                   /\ Val(cfg.endMinutes) # 0
                   /\ Val(finish) + cfg.wrap > Val(cfg.endMinutes)

\* A finished run with both lengths > 0, a warmup block, task blocks and
\* no wrap block, because it did not fit
C7_Witness ==
    /\ Done
    /\ cfg.warmup > 0
    /\ cfg.wrap > 0
    /\ Positions("warmup") = {1}
    /\ Positions("task") # {}
    /\ Positions("wrap") = {}

----------------------------------------------------------------------------
(* Vocabulary of the properties about single steps of the walk *)

HasLast(bs) == Len(bs) > 0
Last(bs) == bs[Len(bs)]

\* The step pushed exactly one block, and no step pushed none
PushedOne == Len(blocks') = Len(blocks) + 1 /\ SubSeq(blocks', 1, Len(blocks)) = blocks
PushedNone == blocks' = blocks

\* The step pushed one block of this kind over [start, end]
Pushed(kind, start, end) ==
    /\ PushedOne
    /\ Last(blocks').kind = kind
    /\ Last(blocks').start = start
    /\ Last(blocks').end = end

\* The nominal durations of the task blocks emitted since the last block
\* that is no task block
RECURSIVE TrailingWork(_)
TrailingWork(bs) ==
    IF bs = <<>> \/ Last(bs).kind # "task" THEN 0
    ELSE Last(bs).task[1].duration + TrailingWork(SubSeq(bs, 1, Len(bs) - 1))

\* Kind, start and end of every block
Layout(bs) == [i \in 1..Len(bs) |-> <<bs[i].kind, bs[i].start, bs[i].end>>]

EndConfigured == ~IsNull(cfg.endMinutes)

----------------------------------------------------------------------------
\* A break is wanted before the task at hand, read off the blocks emitted
\* so far
C8_BreakWanted ==
    /\ cfg.breakFrequency > 0
    /\ TrailingWork(blocks) >= cfg.breakFrequency
    /\ (~EndConfigured \/ cursor + cfg.breakLength <= Val(cfg.endMinutes))

(* C8: with break frequency > 0, before each task the walk visits a break  *)
(* block [cursor, cursor + breakLength] is emitted exactly when the sum of *)
(* the nominal durations of the task blocks emitted since the last         *)
(* warm-up, break or lunch is >= the break frequency and the break fits    *)
(* before the end minute or no end minute is configured; on emission the   *)
(* counter is reset to 0; with break frequency 0 no break block is ever    *)
(* emitted.                                                                *)
C8_BreakExactlyWhenDue ==
    [][/\ pc = "break" =>
            IF C8_BreakWanted
            THEN /\ Pushed("break", cursor, cursor + cfg.breakLength)
                 /\ minutesSinceBreak' = 0
            ELSE PushedNone /\ minutesSinceBreak' = minutesSinceBreak
       /\ pc # "break" => (PushedNone \/ Last(blocks').kind # "break")
       /\ cfg.breakFrequency = 0 => Positions("break")' = {}]_vars

\* Scenario A of section 8
C8_Witness ==
    /\ Done
    /\ cfg.breakFrequency = 90
    /\ Layout(blocks) = << <<"warmup", 480, 490>>, <<"task", 490, 580>>,
                           <<"break", 580, 590>>, <<"task", 590, 615>>,
                           <<"wrap", 615, 625>> >>
    /\ finish = Num(625)

----------------------------------------------------------------------------
\* The planned end of the task at hand exceeds the end minute
C9_Overrun == EndConfigured /\ cursor + sorted[idx].duration > Val(cfg.endMinutes)

C9_MutedIsLast ==
    \A i \in 1..Len(blocks) :
        blocks[i].muted => /\ i = Len(blocks)
                           /\ Done => finish = cfg.endMinutes

----------------------------------------------------------------------------
\* The task at hand would carry the cursor over the lunch anchor
C10_LunchCase ==
    /\ cfg.autoLunch
    /\ cursor < 750
    /\ cursor + sorted[idx].duration > 750

\* At the placement of a task: the lunch step has just moved the cursor to
\* 13:05 for it (the block pushed, or dropped because it ends after the end
\* minute)
C10_AfterLunchJump ==
    /\ cursor = 785
    /\ \/ HasLast(blocks) /\ Last(blocks).kind = "lunch"
       \/ EndConfigured /\ Val(cfg.endMinutes) < 785

C10_LunchStepAsStated ==
    /\ (pc = "lunch" /\ C10_LunchCase) =>
          /\ (~EndConfigured \/ 785 <= Val(cfg.endMinutes)) => Pushed("lunch", 750, 785)
          /\ cursor' = 785
    /\ (pc = "lunch" /\ (cursor >= 750 \/ ~cfg.autoLunch)) => PushedNone
    /\ pc # "lunch" => (PushedNone \/ Last(blocks').kind # "lunch")

(* C10 as stated: with auto-lunch on, whenever the walk reaches a task     *)
(* with the cursor strictly before 12:30 (750) and cursor + duration       *)
(* strictly after 12:30, a lunch block at exactly 750-785 is emitted       *)
(* before that task (if it fits before the end minute), and that task's    *)
(* block starts at 13:05 with its full duration; when the cursor is at or  *)
(* after 12:30, or auto-lunch is off, no lunch block is emitted.           *)
C10_LunchThenFullTask ==
    [][/\ C10_LunchStepAsStated
       /\ (pc = "task" /\ C10_AfterLunchJump) =>
             Pushed("task", 785, 785 + sorted[idx].duration)]_vars

(* C10 as amended: the lunch block and the jump of the cursor to 13:05 are *)
(* as stated, and no lunch block is emitted in any other case; that task's *)
(* block starts at 13:05 and has its full duration when no end minute is   *)
(* configured or 13:05 + duration fits before it; it is truncated to the   *)
(* end minute and muted when the end minute falls inside it; and the task  *)
(* gets no block when the end minute is at or before 13:05.                *)
C10_LunchThenTaskUpToEnd ==
    [][/\ C10_LunchStepAsStated
       /\ (pc = "lunch" /\ ~C10_LunchCase) => (PushedNone /\ cursor' = cursor)
       /\ (pc = "lunch" /\ C10_LunchCase /\ EndConfigured /\ Val(cfg.endMinutes) < 785)
             => PushedNone
       /\ (pc = "task" /\ C10_AfterLunchJump) =>
             LET fullEnd == 785 + sorted[idx].duration
             IN  IF ~EndConfigured \/ fullEnd <= Val(cfg.endMinutes)
                 THEN Pushed("task", 785, fullEnd) /\ ~Last(blocks').muted
                 ELSE IF Val(cfg.endMinutes) > 785
                      THEN /\ Pushed("task", 785, Val(cfg.endMinutes))
                           /\ Last(blocks').muted
                      ELSE PushedNone]_vars

\* Scenario C of section 8
C10_Witness ==
    /\ Done
    /\ cfg.startMinutes = 720
    /\ cfg.autoLunch
    /\ Len(tasks) = 1
    /\ tasks[1].duration = 60
    /\ Layout(blocks) = << <<"lunch", 750, 785>>, <<"task", 785, 845>> >>
    /\ finish = Num(845)

----------------------------------------------------------------------------
(* C11: negative configuration values are treated as 0: a call with a      *)
(* negative break frequency, break length, warm-up length or wrap length   *)
(* returns the same kind/start/end sequence and finish as the call with    *)
(* that value replaced by 0; a negative break length never produces a      *)
(* block with end < start nor moves the cursor backward.                   *)
C11_NegativeAsZero ==
    /\ (run = 2 /\ Done) =>
          /\ Layout(blocks) =
                [i \in 1..Len(prev.blocks) |->
                    <<prev.blocks[i].kind, prev.blocks[i].start, prev.blocks[i].end>>]
          /\ finish = prev.finish
    /\ \A i \in 1..Len(blocks) : blocks[i].start <= blocks[i].end
    /\ \A i \in 1..Len(blocks) : blocks[i].end <= cursor

----------------------------------------------------------------------------
(* C12: when an end minute is configured, a positive-duration task that    *)
(* the walk reaches while the cursor is strictly before the end minute is  *)
(* never dropped: a task block for it is emitted, truncated to the end     *)
(* minute and muted if it would overflow.                                  *)
C12_ReachedTaskGetsBlock ==
    EndConfigured =>
        \A k \in 1..(idx - 1) :
            sorted[k].duration > 0 =>
                \E i \in Positions("task") :
                    /\ TaskOf(i) = sorted[k]
                    /\ blocks[i].end <= Val(cfg.endMinutes)
                    /\ blocks[i].muted =
                          (blocks[i].start + sorted[k].duration > Val(cfg.endMinutes))

----------------------------------------------------------------------------
(* C13: buildSchedule never mutates its input: after any call the caller's *)
(* task array has the same length and the same elements in the same order  *)
(* as before and no task's fields are changed; sorting is done on a copy.  *)
C13_InputUntouched == [][tasks' = tasks]_vars

\* A finished run whose sort put three tasks in another order than the
\* array's, and that wrapped them into blocks
C13_Witness ==
    /\ Done
    /\ Len(tasks) = 3
    /\ sorted # tasks
    /\ Cardinality(Positions("task")) = 3

----------------------------------------------------------------------------
(* C14: for every finite task list and every configuration buildSchedule   *)
(* terminates after visiting each sorted task at most once, and the number *)
(* of emitted blocks is at most 2 * (number of tasks) + 3 (one warmup, at  *)
(* most one break per task, at most one lunch, one wrap).                  *)
C14_AtMostTwoBlocksPerTaskPlusThree ==
    /\ idx <= Len(sorted) + 1
    /\ Len(blocks) <= 2 * Len(tasks) + 3

----------------------------------------------------------------------------
(* C15: after the task loop a wrap block [cursor, cursor + wrap] is        *)
(* emitted and the cursor advanced if and only if wrap length > 0 and      *)
(* either no end minute is configured or cursor + wrap <= end minute, for  *)
(* every configured end minute in [0, 1440], end minute 0 included.        *)
C15_WrapIffItFits ==
    [][pc = "wrap" =>
          IF /\ cfg.wrap > 0
             /\ (~EndConfigured \/ cursor + cfg.wrap <= Val(cfg.endMinutes))
          THEN Pushed("wrap", cursor, cursor + cfg.wrap) /\ cursor' = cursor + cfg.wrap
          ELSE PushedNone /\ cursor' = cursor]_vars

----------------------------------------------------------------------------
\* A break is due before the task at hand, read off the blocks emitted so far
C16_BreakIsDue ==
    cfg.breakFrequency > 0 /\ TrailingWork(blocks) >= cfg.breakFrequency

(* C16: when a due break would end after the configured end minute, no     *)
(* break block is emitted and the cursor and the since-break counter are   *)
(* left unchanged; when a due lunch (12:30-13:05) would end after the      *)
(* configured end minute, no lunch block is emitted but the cursor is      *)
(* still set to 13:05 and the since-break counter is reset to 0.           *)
C16_OverflowAsymmetry ==
    [][/\ (/\ pc = "break"
           /\ C16_BreakIsDue
           /\ EndConfigured
           /\ cursor + cfg.breakLength > Val(cfg.endMinutes))
          => /\ PushedNone
             /\ cursor' = cursor
             /\ minutesSinceBreak' = minutesSinceBreak
       /\ (/\ pc = "lunch"
           /\ C10_LunchCase
           /\ EndConfigured
           /\ 785 > Val(cfg.endMinutes))
          => /\ PushedNone
             /\ cursor' = 785
             /\ minutesSinceBreak' = 0]_vars

\* Right after a lunch that did not fit: no lunch block, the cursor at 13:05
\* past the end minute, and the counter, which the task block before had
\* raised, back at 0
C16_Witness ==
    /\ pc = "task"
    /\ EndConfigured
    /\ Val(cfg.endMinutes) < 785
    /\ cursor = 785
    /\ Positions("lunch") = {}
    /\ HasLast(blocks)
    /\ Last(blocks).kind = "task"
    /\ Last(blocks).end < 750
    /\ minutesSinceBreak = 0
    /\ cfg.breakFrequency > 0

----------------------------------------------------------------------------
\* The break block at position i lies outside the interior of every task block
C17_ClearOfTasks(i) ==
    \A j \in Positions("task") :
        blocks[i].end <= blocks[j].start \/ blocks[i].start >= blocks[j].end

C17_BreakBetweenTwoTasks ==
    Done =>
        \A i \in Positions("break") :
            /\ i > 1
            /\ blocks[i - 1].kind = "task"
            /\ i < Len(blocks)
            /\ blocks[i + 1].kind = "task"
            /\ C17_ClearOfTasks(i)

(* C17: in every result each break block is immediately preceded by a     *)
(* task block and is immediately followed by a task block or by the lunch  *)
(* block, or is the last block of a result whose cursor has reached the    *)
(* configured end minute; it is never first, never adjacent to a warmup,   *)
(* a wrap or another break, and its interval does not intersect the        *)
(* interior of any task block.                                             *)
C17_BreakAfterTask ==
    Done =>
        \A i \in Positions("break") :
            /\ i > 1
            /\ blocks[i - 1].kind = "task"
            /\ IF i < Len(blocks)
               THEN blocks[i + 1].kind \in {"task", "lunch"}
               ELSE EndConfigured /\ cursor >= Val(cfg.endMinutes)
            /\ C17_ClearOfTasks(i)

\* A break between a task and the lunch block, the next task after the lunch
C17_Witness ==
    /\ Done
    /\ \E i \in Positions("break") :
          /\ i > 1
          /\ i + 2 <= Len(blocks)
          /\ blocks[i - 1].kind = "task"
          /\ blocks[i + 1].kind = "lunch"
          /\ blocks[i + 2].kind = "task"
          /\ blocks[i].start = blocks[i - 1].end

----------------------------------------------------------------------------
\* The task blocks of the result, in the order of the result
C18_TaskBlocks == SelectSeq(blocks, LAMBDA b : b.kind = "task")

(* C18: for task lists with positive durations the tasks that have a task  *)
(* block are a prefix of the sorted order (the k-th task block is the one  *)
(* of the k-th sorted task), and once the cursor has reached or passed a   *)
(* configured end minute no further task, break or lunch block is emitted. *)
C18_CutoffRemovesTail ==
    /\ [](\A k \in 1..Len(C18_TaskBlocks) :
            /\ k <= Len(sorted)
            /\ C18_TaskBlocks[k].task = <<sorted[k]>>)
    /\ [][(EndConfigured /\ cursor >= Val(cfg.endMinutes)) =>
             \/ PushedNone
             \/ Last(blocks').kind \notin {"task", "break", "lunch"}]_vars

\* The end minute is reached with tasks left over: the first ones have their
\* blocks, the rest has none
C18_Witness ==
    /\ Done
    /\ EndConfigured
    /\ cursor >= Val(cfg.endMinutes)
    /\ Len(C18_TaskBlocks) >= 1
    /\ Len(C18_TaskBlocks) < Len(sorted)
    /\ \A k \in 1..Len(sorted) : sorted[k].duration > 0

----------------------------------------------------------------------------
(* C19: no task block of zero or negative length is emitted: every task    *)
(* block has start < end, whatever the task durations (0 and negative      *)
(* included) and the end minute; the placement step of a task that gets no *)
(* block leaves the since-break counter and the cursor as the break and    *)
(* lunch steps of that task left them.                                     *)
C19_NoEmptyTaskBlock ==
    /\ [](\A i \in Positions("task") : blocks[i].start < blocks[i].end)
    /\ [][pc = "task" =>
             \/ /\ PushedOne
                /\ Last(blocks').kind = "task"
                /\ Last(blocks').start = cursor
                /\ Last(blocks').end > cursor
             \/ /\ PushedNone
                /\ cursor' = cursor
                /\ minutesSinceBreak' = minutesSinceBreak]_vars

\* A task of duration 0 and one of negative duration were skipped with no
\* end minute in the way, and the task after them was placed at the start
C19_Witness ==
    /\ Done
    /\ ~EndConfigured
    /\ Len(sorted) = 3
    /\ sorted[1].duration = 0
    /\ sorted[2].duration < 0
    /\ sorted[3].duration > 0
    /\ cfg.warmup <= 0
    /\ Cardinality(Positions("task")) = 1
    /\ \E i \in Positions("task") :
          /\ TaskOf(i) = sorted[3]
          /\ blocks[i].start = cfg.startMinutes

----------------------------------------------------------------------------
\* The positions of the muted blocks
C20_Muted == {i \in 1..Len(blocks) : blocks[i].muted}

(* C20: a task block is muted exactly when it was truncated: a non-muted   *)
(* task block is as long as its task's duration, a muted one is strictly   *)
(* shorter and ends exactly at the configured end minute; a result has at  *)
(* most one muted block, only task blocks are muted, and with no end       *)
(* minute configured no block is muted.                                    *)
C20_MutedIffTruncated ==
    /\ \A i \in Positions("task") :
          IF blocks[i].muted
          THEN /\ EndConfigured
               /\ blocks[i].end - blocks[i].start < TaskOf(i).duration
               /\ blocks[i].end = Val(cfg.endMinutes)
          ELSE blocks[i].end - blocks[i].start = TaskOf(i).duration
    /\ C20_Muted \subseteq Positions("task")
    /\ Cardinality(C20_Muted) <= 1
    /\ ~EndConfigured => C20_Muted = {}

\* A result with a task of full length and, after it, a truncated one
C20_Witness ==
    /\ Done
    /\ EndConfigured
    /\ Cardinality(C20_Muted) = 1
    /\ \E i \in Positions("task") :
          /\ ~blocks[i].muted
          /\ blocks[i].end - blocks[i].start = TaskOf(i).duration
    /\ \E i \in C20_Muted :
          /\ blocks[i].start < blocks[i].end
          /\ blocks[i].end = Val(cfg.endMinutes)

----------------------------------------------------------------------------
(* C21: every block of kind task carries a reference to its originating    *)
(* task, a task of the input list, and has that task's identifier as its   *)
(* identifier and that task's title as its label; no block of another kind *)
(* carries a task reference; no input task has two task blocks, so there   *)
(* are at most as many task blocks as input tasks.                         *)
C21_TaskBlockIdentity ==
    /\ \A i \in 1..Len(blocks) :
          IF blocks[i].kind = "task"
          THEN /\ Len(blocks[i].task) = 1
               /\ \E k \in 1..Len(tasks) : tasks[k] = TaskOf(i)
               /\ blocks[i].id = TaskOf(i).id
               /\ blocks[i].label = TaskOf(i).title
          ELSE blocks[i].task = <<>>
    /\ \A i, j \in Positions("task") : TaskOf(i) = TaskOf(j) => i = j
    /\ Cardinality(Positions("task")) <= Len(tasks)

\* Every task of a list of three has its block, between blocks of other kinds
C21_Witness ==
    /\ Done
    /\ Len(tasks) = 3
    /\ Cardinality(Positions("task")) = 3
    /\ Positions("warmup") # {}
    /\ Positions("break") # {}
    /\ Positions("wrap") # {}

----------------------------------------------------------------------------
(* C22: for inputs with non-negative lengths a result has at most one      *)
(* lunch block, that block is exactly [750, 785] whatever the start and    *)
(* end minutes are, and there is no lunch block when start minute plus     *)
(* warm-up is at or after 12:30 (750).                                     *)
C22_OneFixedLunch ==
    /\ Cardinality(Positions("lunch")) <= 1
    /\ \A i \in Positions("lunch") : blocks[i].start = 750 /\ blocks[i].end = 785
    /\ cfg.startMinutes + cfg.warmup >= 750 => Positions("lunch") = {}

\* A lunch block with a task before it and a task after it, an end minute set
C22_Witness ==
    /\ Done
    /\ EndConfigured
    /\ \E i \in Positions("lunch") :
          /\ i > 1
          /\ i < Len(blocks)
          /\ blocks[i - 1].kind = "task"
          /\ blocks[i - 1].end < 750
          /\ blocks[i + 1].kind = "task"
          /\ blocks[i + 1].start = 785

----------------------------------------------------------------------------
(* C23: when an end minute is configured and start minute <= end minute,   *)
(* the finish that buildSchedule returns does not exceed the end minute,   *)
(* for every task list and every setting of warm-up, wrap, breaks and      *)
(* auto-lunch.                                                             *)
C23_FinishWithinEnd ==
    (/\ Done
     /\ EndConfigured
     /\ cfg.startMinutes <= Val(cfg.endMinutes))
        => Val(finish) <= Val(cfg.endMinutes)

----------------------------------------------------------------------------
\* The step is the run of the effect that is due
C24_Runs(which) == EffectDue(which) /\ effects' = Tail(effects)

\* The save effect runs with ready true: it writes
C24_Writes == C24_Runs("save") /\ home.ready

\* The saved text is an object and has a value to apply for the property f:
\* the property is there and is not the empty string or the empty list
C24_SavedValue(saved, f) ==
    /\ ~IsNull(saved)
    /\ Val(saved).kind = "object"
    /\ f \in Val(saved).has
    /\ CASE f \in {"name", "profile"} -> Val(saved).fields[f] # ""
         [] f \in {"startTime", "endTime", "tasks"} -> Val(saved).fields[f] # <<>>
         [] OTHER -> TRUE

\* The value written for the property f is the saved one; a saved task
\* that had no identifier has got one
C24_Kept(saved, written, f) ==
    IF f = "tasks"
    THEN LET a == Val(saved).fields.tasks
             b == Val(written).fields.tasks
         IN  /\ Len(b) = Len(a)
             /\ \A k \in 1..Len(a) :
                   /\ b[k].title = a[k].title
                   /\ a[k].id # <<>> => b[k].id = a[k].id
    ELSE Val(written).fields[f] = Val(saved).fields[f]

(* C24: the planner state is written to localStorage only by the save      *)
(* effect of a render whose ready is true, and then no load effect is      *)
(* still to run; every run of the load effect (an item present, absent or  *)
(* failing to parse) ends with the call setReady(true); and, with no user  *)
(* event so far, a write keeps every value the saved state has to apply,   *)
(* so the saved state is not replaced by the seed tasks and the default    *)
(* settings before it has been read and applied.                           *)
C24_NoSaveBeforeLoad ==
    [][/\ storage' # storage =>
             /\ C24_Writes
             /\ \A i \in 1..Len(effects) : effects[i] # "load"
             /\ storage' = Num(Stringify(PersistedState(home)))
       /\ C24_Runs("load") =>
             /\ updates' # <<>>
             /\ Last(updates').field = "ready"
             /\ Last(updates').value = TRUE
       /\ (C24_Writes /\ edits = 0) =>
             \A f \in PersistedFields :
                 C24_SavedValue(storage, f) => C24_Kept(storage, storage', f)]_vars

\* The saved object with a name and a task without identifier only has been
\* read, applied and written back with the defaults for what it lacked
C24_Witness ==
    /\ home.ready
    /\ edits = 0
    /\ effects = <<>>
    /\ updates = <<>>
    /\ ~IsNull(storage)
    /\ Val(storage).kind = "object"
    /\ Val(storage).has = PersistedFields
    /\ Val(storage).fields.name = "Ada"
    /\ Len(Val(storage).fields.tasks) = 1
    /\ Val(storage).fields.tasks[1].title = "inbox"
    /\ Val(storage).fields.tasks[1].id = createId(MountSeed, 4)
    /\ Val(storage).fields.endTime = <<17, 30>>

====
